---- MODULE Spec2Model ----
(***************************************************************************)
(* A model of kslot_map: the generational-index arena SlotMap<T>           *)
(* (src/src/lib.rs) and the doubly linked list LinkedListSlotMap<T> built  *)
(* on it (src/src/linked_list_slot_map.rs).                                *)
(*                                                                         *)
(* Rust indices are 0-based; a Vec is a TLA+ sequence, so the element at   *)
(* Rust index i is v[i + 1].  Option<T> is None or Some(x).  A function    *)
(* of the program is an operator from the arena (a record of its four      *)
(* Vecs) to a record [sm, ret, panic]: the arena it leaves, the value it   *)
(* returns, and whether it panicked (unwrap of None, index out of range).  *)
(***************************************************************************)
EXTENDS Integers, Sequences, FiniteSets, TLC

\* Bounds of the model.
MaxItems == 3
MaxRemoved == 3
MaxListRemoved == 2

VARIABLES
    items,                      \* SlotMap.items
    item_to_indirection_index,  \* SlotMap.item_to_indirection_index
    indirection_indices,        \* SlotMap.indirection_indices
    free_indirection_indices,   \* SlotMap.free_indirection_indices
    current_node,               \* RevRemoveLinkedListSlotMapIterator.current_node
    draining,                   \* a RevRemoveLinkedListSlotMapIterator is alive
    panicked,                   \* the last call panicked: the run has ended
    live,                       \* handle -> value, for handles returned and not removed
    removed,                    \* handles whose removal succeeded
    abandoned,                  \* some drain iterator was dropped before exhaustion
    last                        \* the last call: its name, arguments and result

vars == <<items, item_to_indirection_index, indirection_indices,
          free_indirection_indices, current_node, draining, panicked,
          live, removed, abandoned, last>>

-----------------------------------------------------------------------------
\* Option<T>

None == [some |-> FALSE]

Some(x) == [some |-> TRUE, val |-> x]

\* How a call ends: returning ret, or panicking.
Ok(sm, ret) == [sm |-> sm, ret |-> ret, panic |-> FALSE]

Panic(sm) == [sm |-> sm, ret |-> None, panic |-> TRUE]

-----------------------------------------------------------------------------
\* Vec<T> and slices

\* slice::get(i)
vec_get(v, i) == IF i < Len(v) THEN Some(v[i + 1]) ELSE None

\* slice::last()
vec_last(v) == IF Len(v) > 0 THEN Some(v[Len(v)]) ELSE None

\* Vec::swap_remove(index), for index < len: the last element takes the
\* place of the removed one.
swap_remove(v, index) ==
    [i \in 1..(Len(v) - 1) |-> IF i = index + 1 THEN v[Len(v)] ELSE v[i]]

\* slice::split_at_mut(mid), for mid <= len: two windows on the Vec, each
\* given by the position of its first element and its length.
split_at_mut(v, mid) ==
    << [start |-> 0, len |-> mid], [start |-> mid, len |-> Len(v) - mid] >>

\* get_mut(k) on a window: a reference, modelled as the position in the
\* whole Vec that it refers to.
slice_get_mut(s, k) == IF k < s.len THEN Some(s.start + k) ELSE None

-----------------------------------------------------------------------------
\* SlotMap<T>

Entry(item_index, generation) ==
    [item_index |-> item_index, generation |-> generation]

SlotMapHandle(indirection_index, generation) ==
    [indirection_index |-> indirection_index, generation |-> generation]

\* impl Hash for SlotMapHandle: the words fed to the hasher, in order.
SlotMapHandle_hash(self) == << self.indirection_index, self.generation >>

\* impl PartialEq for SlotMapHandle
SlotMapHandle_eq(self, other) == self.indirection_index = other.indirection_index

\* impl Ord for SlotMapHandle; partial_cmp is Some of it.
SlotMapHandle_cmp(self, other) ==
    IF self.indirection_index < other.indirection_index THEN "Less"
    ELSE IF self.indirection_index > other.indirection_index THEN "Greater"
    ELSE "Equal"

\* SlotMap::new
new ==
    [items |-> << >>,
     item_to_indirection_index |-> << >>,
     indirection_indices |-> << >>,
     free_indirection_indices |-> << >>]

\* SlotMap::len
len(sm) == Len(sm.items)

\* next_handle as it would be if the generation of a reused slot were
\* reported without the increment.
next_handle_no_increment(sm) ==
    LET free == vec_last(sm.free_indirection_indices) IN
    IF free.some
    THEN LET slot == sm.indirection_indices[free.val + 1] IN
         Ok(sm, SlotMapHandle(free.val, slot.generation))
    ELSE Ok(sm, SlotMapHandle(Len(sm.indirection_indices), 0))

\* SlotMap::next_handle
next_handle(sm) ==
    LET free == vec_last(sm.free_indirection_indices) IN
    IF free.some
    THEN LET slot == sm.indirection_indices[free.val + 1] IN
         Ok(sm, SlotMapHandle(free.val, slot.generation + 1))
    ELSE Ok(sm, SlotMapHandle(Len(sm.indirection_indices), 0))

\* new_handle_with_index as it would be if a reused slot kept the generation
\* that its removal left.
new_handle_with_index_keep_generation(sm, item_index) ==
    LET free == vec_last(sm.free_indirection_indices) IN
    IF free.some
    THEN LET indirection_index == free.val
             generation == sm.indirection_indices[indirection_index + 1].generation
         IN  Ok([sm EXCEPT
                   !.free_indirection_indices = SubSeq(@, 1, Len(@) - 1),
                   !.indirection_indices[indirection_index + 1] =
                       Entry(item_index, generation),
                   !.item_to_indirection_index = Append(@, indirection_index)],
                SlotMapHandle(indirection_index, generation))
    ELSE LET indirection_index == Len(sm.indirection_indices)
         IN  Ok([sm EXCEPT
                   !.indirection_indices = Append(@, Entry(item_index, 0)),
                   !.item_to_indirection_index = Append(@, indirection_index)],
                SlotMapHandle(indirection_index, 0))

\* new_handle_with_index as it would be if a reused slot kept the item_index
\* that its removal left.
new_handle_with_index_keep_item_index(sm, item_index) ==
    LET free == vec_last(sm.free_indirection_indices) IN
    IF free.some
    THEN LET indirection_index == free.val
             generation == sm.indirection_indices[indirection_index + 1].generation + 1
         IN  Ok([sm EXCEPT
                   !.free_indirection_indices = SubSeq(@, 1, Len(@) - 1),
                   !.indirection_indices[indirection_index + 1].generation =
                       generation,
                   !.item_to_indirection_index = Append(@, indirection_index)],
                SlotMapHandle(indirection_index, generation))
    ELSE LET indirection_index == Len(sm.indirection_indices)
         IN  Ok([sm EXCEPT
                   !.indirection_indices = Append(@, Entry(item_index, 0)),
                   !.item_to_indirection_index = Append(@, indirection_index)],
                SlotMapHandle(indirection_index, 0))

\* SlotMap::new_handle_with_index
new_handle_with_index(sm, item_index) ==
    LET free == vec_last(sm.free_indirection_indices) IN
    IF free.some
    THEN LET indirection_index == free.val
             generation == sm.indirection_indices[indirection_index + 1].generation + 1
         IN  Ok([sm EXCEPT
                   !.free_indirection_indices = SubSeq(@, 1, Len(@) - 1),
                   !.indirection_indices[indirection_index + 1] =
                       Entry(item_index, generation),
                   !.item_to_indirection_index = Append(@, indirection_index)],
                SlotMapHandle(indirection_index, generation))
    ELSE LET indirection_index == Len(sm.indirection_indices)
         IN  Ok([sm EXCEPT
                   !.indirection_indices = Append(@, Entry(item_index, 0)),
                   !.item_to_indirection_index = Append(@, indirection_index)],
                SlotMapHandle(indirection_index, 0))

\* SlotMap::push
push(sm, item) ==
    LET item_index == Len(sm.items) IN
    new_handle_with_index([sm EXCEPT !.items = Append(@, item)], item_index)

\* Vec::remove(index), which shifts the tail down instead of swapping.
shift_remove(v, index) ==
    [i \in 1..(Len(v) - 1) |-> IF i < index + 1 THEN v[i] ELSE v[i + 1]]

\* remove_entry as it would be if the entry of the element moved into the
\* hole were not patched.
remove_entry_no_patch(sm, handle) ==
    LET i == handle.indirection_index
        sm1 == [sm EXCEPT !.indirection_indices[i + 1].generation = @ + 1]
        item_index == sm1.indirection_indices[i + 1].item_index
    IN  IF item_index >= Len(sm1.items) THEN Panic(sm1)
        ELSE Ok([sm1 EXCEPT
                   !.items = swap_remove(@, item_index),
                   !.item_to_indirection_index = swap_remove(@, item_index),
                   !.free_indirection_indices = Append(@, i)],
                Some(sm1.items[item_index + 1]))

\* remove_entry as it would be without the generation increment.
remove_entry_no_bump(sm, handle) ==
    LET i == handle.indirection_index
        item_index == sm.indirection_indices[i + 1].item_index
        last_owner == vec_last(sm.item_to_indirection_index)
    IN  IF ~last_owner.some THEN Panic(sm)
        ELSE LET sm2 == [sm EXCEPT
                           !.indirection_indices[last_owner.val + 1].item_index =
                               item_index]
             IN  IF item_index >= Len(sm2.items) THEN Panic(sm2)
                 ELSE Ok([sm2 EXCEPT
                            !.items = swap_remove(@, item_index),
                            !.item_to_indirection_index = swap_remove(@, item_index),
                            !.free_indirection_indices = Append(@, i)],
                         Some(sm2.items[item_index + 1]))

\* remove_entry as it would be with Vec::remove in place of swap_remove on
\* the dense storage.
remove_entry_shift(sm, handle) ==
    LET i == handle.indirection_index
        sm1 == [sm EXCEPT !.indirection_indices[i + 1].generation = @ + 1]
        item_index == sm1.indirection_indices[i + 1].item_index
        last_owner == vec_last(sm1.item_to_indirection_index)
    IN  IF ~last_owner.some THEN Panic(sm1)
        ELSE LET sm2 == [sm1 EXCEPT
                           !.indirection_indices[last_owner.val + 1].item_index =
                               item_index]
             IN  IF item_index >= Len(sm2.items) THEN Panic(sm2)
                 ELSE Ok([sm2 EXCEPT
                            !.items = shift_remove(@, item_index),
                            !.item_to_indirection_index = swap_remove(@, item_index),
                            !.free_indirection_indices = Append(@, i)],
                         Some(sm2.items[item_index + 1]))

\* remove_entry as it would be if the entry of the last element were
\* patched after the swap_remove instead of before it.
remove_entry_patch_after_swap(sm, handle) ==
    LET i == handle.indirection_index
        sm1 == [sm EXCEPT !.indirection_indices[i + 1].generation = @ + 1]
        item_index == sm1.indirection_indices[i + 1].item_index
    IN  IF item_index >= Len(sm1.items) THEN Panic(sm1)
        ELSE LET sm2 == [sm1 EXCEPT
                           !.items = swap_remove(@, item_index),
                           !.item_to_indirection_index = swap_remove(@, item_index),
                           !.free_indirection_indices = Append(@, i)]
                 last_owner == vec_last(sm2.item_to_indirection_index)
             IN  IF ~last_owner.some THEN Ok(sm2, Some(sm1.items[item_index + 1]))
                 ELSE Ok([sm2 EXCEPT
                            !.indirection_indices[last_owner.val + 1].item_index =
                                item_index],
                         Some(sm1.items[item_index + 1]))

\* The body that remove and remove_unchecked_generation share, from the
\* generation increment on.  Each step that can panic is taken in the
\* order of the code, and leaves what the steps before it wrote.
remove_entry(sm, handle) ==
    LET i == handle.indirection_index
        sm1 == [sm EXCEPT !.indirection_indices[i + 1].generation = @ + 1]
        item_index == sm1.indirection_indices[i + 1].item_index
        last_owner == vec_last(sm1.item_to_indirection_index)
    IN  IF ~last_owner.some THEN Panic(sm1)
        ELSE LET sm2 == [sm1 EXCEPT
                           !.indirection_indices[last_owner.val + 1].item_index =
                               item_index]
             IN  IF item_index >= Len(sm2.items) THEN Panic(sm2)
                 ELSE Ok([sm2 EXCEPT
                            !.items = swap_remove(@, item_index),
                            !.item_to_indirection_index = swap_remove(@, item_index),
                            !.free_indirection_indices = Append(@, i)],
                         Some(sm2.items[item_index + 1]))

\* SlotMap::remove
remove(sm, handle) ==
    LET item_entry == vec_get(sm.indirection_indices, handle.indirection_index) IN
    IF ~item_entry.some THEN Ok(sm, None)
    ELSE IF handle.generation # item_entry.val.generation THEN Ok(sm, None)
    ELSE remove_entry(sm, handle)

\* SlotMap::remove_unchecked_generation
remove_unchecked_generation(sm, handle) ==
    LET item_entry == vec_get(sm.indirection_indices, handle.indirection_index) IN
    IF ~item_entry.some THEN Ok(sm, None)
    ELSE remove_entry(sm, handle)

\* SlotMap::get
get(sm, handle) ==
    IF handle.indirection_index >= Len(sm.indirection_indices) THEN Panic(sm)
    ELSE LET entry == sm.indirection_indices[handle.indirection_index + 1] IN
         IF entry.generation # handle.generation THEN Ok(sm, None)
         ELSE Ok(sm, vec_get(sm.items, entry.item_index))

\* SlotMap::get_mut: the reference is the dense position it refers to.
get_mut(sm, handle) ==
    IF handle.indirection_index >= Len(sm.indirection_indices) THEN Panic(sm)
    ELSE LET entry == sm.indirection_indices[handle.indirection_index + 1] IN
         IF entry.generation # handle.generation THEN Ok(sm, None)
         ELSE Ok(sm, IF entry.item_index < Len(sm.items)
                     THEN Some(entry.item_index) ELSE None)

\* get_mut_twice as it would be if equal positions took the Less branch.
get_mut_twice_equal_as_less(sm, handle0, handle1) ==
    IF \/ handle0.indirection_index >= Len(sm.indirection_indices)
       \/ handle1.indirection_index >= Len(sm.indirection_indices)
    THEN Panic(sm)
    ELSE LET entry0 == sm.indirection_indices[handle0.indirection_index + 1]
             entry1 == sm.indirection_indices[handle1.indirection_index + 1]
         IN  IF entry0.item_index <= entry1.item_index
             THEN IF entry1.item_index > Len(sm.items) THEN Panic(sm)
                  ELSE LET v == split_at_mut(sm.items, entry1.item_index) IN
                       Ok(sm, << slice_get_mut(v[1], entry0.item_index),
                                 slice_get_mut(v[2], 0) >>)
             ELSE IF entry0.item_index > Len(sm.items) THEN Panic(sm)
                  ELSE LET v == split_at_mut(sm.items, entry0.item_index) IN
                       Ok(sm, << slice_get_mut(v[2], 0),
                                 slice_get_mut(v[1], entry1.item_index) >>)

\* get_mut_twice as it would be if the Greater branch returned its two
\* references in the order of the Less branch.
get_mut_twice_positional(sm, handle0, handle1) ==
    IF \/ handle0.indirection_index >= Len(sm.indirection_indices)
       \/ handle1.indirection_index >= Len(sm.indirection_indices)
    THEN Panic(sm)
    ELSE LET entry0 == sm.indirection_indices[handle0.indirection_index + 1]
             entry1 == sm.indirection_indices[handle1.indirection_index + 1]
         IN  IF entry0.item_index < entry1.item_index
             THEN IF entry1.item_index > Len(sm.items) THEN Panic(sm)
                  ELSE LET v == split_at_mut(sm.items, entry1.item_index) IN
                       Ok(sm, << slice_get_mut(v[1], entry0.item_index),
                                 slice_get_mut(v[2], 0) >>)
             ELSE IF entry0.item_index > entry1.item_index
             THEN IF entry0.item_index > Len(sm.items) THEN Panic(sm)
                  ELSE LET v == split_at_mut(sm.items, entry0.item_index) IN
                       Ok(sm, << slice_get_mut(v[1], entry1.item_index),
                                 slice_get_mut(v[2], 0) >>)
             ELSE Ok(sm, << None, None >>)

\* SlotMap::get_mut_twice: a pair of references, each the dense position it
\* refers to.
get_mut_twice(sm, handle0, handle1) ==
    IF \/ handle0.indirection_index >= Len(sm.indirection_indices)
       \/ handle1.indirection_index >= Len(sm.indirection_indices)
    THEN Panic(sm)
    ELSE LET entry0 == sm.indirection_indices[handle0.indirection_index + 1]
             entry1 == sm.indirection_indices[handle1.indirection_index + 1]
         IN  IF entry0.item_index < entry1.item_index
             THEN IF entry1.item_index > Len(sm.items) THEN Panic(sm)
                  ELSE LET v == split_at_mut(sm.items, entry1.item_index) IN
                       Ok(sm, << slice_get_mut(v[1], entry0.item_index),
                                 slice_get_mut(v[2], 0) >>)
             ELSE IF entry0.item_index > entry1.item_index
             THEN IF entry0.item_index > Len(sm.items) THEN Panic(sm)
                  ELSE LET v == split_at_mut(sm.items, entry0.item_index) IN
                       Ok(sm, << slice_get_mut(v[2], 0),
                                 slice_get_mut(v[1], entry1.item_index) >>)
             ELSE Ok(sm, << None, None >>)

\* SlotMap::get_unchecked_generation
get_unchecked_generation(sm, handle) ==
    IF handle.indirection_index >= Len(sm.indirection_indices) THEN Panic(sm)
    ELSE Ok(sm, vec_get(sm.items,
                        sm.indirection_indices[handle.indirection_index + 1].item_index))

\* iter_with_handle as it would be if the dense position were taken for the
\* indirection index.
iter_with_handle_by_position(sm) ==
    [index \in 1..Len(sm.items) |->
        LET indirection_index == index - 1
            generation == sm.indirection_indices[indirection_index + 1].generation
        IN  << sm.items[index], SlotMapHandle(indirection_index, generation) >>]

\* SlotMap::iter_with_handle
iter_with_handle(sm) ==
    [index \in 1..Len(sm.items) |->
        LET indirection_index == sm.item_to_indirection_index[index]
            generation == sm.indirection_indices[indirection_index + 1].generation
        IN  << sm.items[index], SlotMapHandle(indirection_index, generation) >>]

-----------------------------------------------------------------------------
\* LinkedListSlotMap<T>: a SlotMap<Node<T>>.  A LinkedListSlotMapHandle wraps
\* the SlotMapHandle of its node and is modelled by it.

Node(value, next, previous) ==
    [value |-> value, next |-> next, previous |-> previous]

\* self.slot_map.get_mut(handle).unwrap().next = next
set_next(sm, handle, next) ==
    LET r == get_mut(sm, handle) IN
    IF r.panic \/ ~r.ret.some THEN Panic(sm)
    ELSE Ok([sm EXCEPT !.items[r.ret.val + 1].next = next], None)

\* self.slot_map.get_mut(handle).unwrap().previous = previous
set_previous(sm, handle, previous) ==
    LET r == get_mut(sm, handle) IN
    IF r.panic \/ ~r.ret.some THEN Panic(sm)
    ELSE Ok([sm EXCEPT !.items[r.ret.val + 1].previous = previous], None)

\* LinkedList_insert as it would be if the old next of previous were not
\* pointed back at the new node.
LinkedList_insert_no_back_link(sm, previous, value) ==
    LET found == IF previous.some THEN get(sm, previous.val) ELSE Ok(sm, None) IN
    IF previous.some /\ (found.panic \/ ~found.ret.some) THEN Panic(sm)
    ELSE LET next == IF previous.some THEN found.ret.val.next ELSE None
             pushed == push(sm, Node(value, next, previous))
             new_handle == pushed.ret
             linked == IF previous.some
                       THEN set_next(pushed.sm, previous.val, Some(new_handle))
                       ELSE Ok(pushed.sm, None)
         IN  IF linked.panic THEN Panic(linked.sm)
             ELSE Ok(linked.sm, new_handle)

\* LinkedListSlotMap::insert
LinkedList_insert(sm, previous, value) ==
    LET found == IF previous.some THEN get(sm, previous.val) ELSE Ok(sm, None) IN
    IF previous.some /\ (found.panic \/ ~found.ret.some) THEN Panic(sm)
    ELSE LET next == IF previous.some THEN found.ret.val.next ELSE None
             pushed == push(sm, Node(value, next, previous))
             new_handle == pushed.ret
             linked == IF previous.some
                       THEN set_next(pushed.sm, previous.val, Some(new_handle))
                       ELSE Ok(pushed.sm, None)
         IN  IF linked.panic THEN Panic(linked.sm)
             ELSE LET back == IF next.some
                              THEN set_previous(linked.sm, next.val, Some(new_handle))
                              ELSE Ok(linked.sm, None)
                  IN  IF back.panic THEN Panic(back.sm)
                      ELSE Ok(back.sm, new_handle)

\* LinkedListSlotMap::remove
LinkedList_remove(sm, node_handle) ==
    LET taken == remove(sm, node_handle) IN
    IF taken.panic \/ ~taken.ret.some THEN Panic(taken.sm)
    ELSE LET node == taken.ret.val
             fore == IF node.previous.some
                     THEN set_next(taken.sm, node.previous.val, node.next)
                     ELSE Ok(taken.sm, None)
         IN  IF fore.panic THEN Panic(fore.sm)
             ELSE LET back == IF node.next.some
                              THEN set_previous(fore.sm, node.next.val, node.previous)
                              ELSE Ok(fore.sm, None)
                  IN  IF back.panic THEN Panic(back.sm)
                      ELSE Ok(back.sm, << node.value, node.previous, node.next >>)

\* LinkedListSlotMap::get
LinkedList_get(sm, handle) ==
    LET r == get(sm, handle) IN
    IF r.panic THEN Panic(sm)
    ELSE Ok(sm, IF r.ret.some THEN Some(r.ret.val.value) ELSE None)

\* LinkedListSlotMap::get_previous_handle
get_previous_handle(sm, handle) ==
    LET r == get(sm, handle) IN
    IF r.panic THEN Panic(sm)
    ELSE Ok(sm, IF r.ret.some THEN r.ret.val.previous ELSE None)

\* LinkedListSlotMap::get_next_handle
get_next_handle(sm, handle) ==
    LET r == get(sm, handle) IN
    IF r.panic THEN Panic(sm)
    ELSE Ok(sm, IF r.ret.some THEN r.ret.val.next ELSE None)

\* LinkedListSlotMapIterator::next, called until it returns None, from the
\* iterator state current; the (value, handle) pairs yielded are collected in
\* order.  Every node visited is live, so a walk that has made more calls
\* than the arena has nodes is in a cycle and would never end: endless.
RECURSIVE iter_from(_, _, _)
iter_from(sm, current, calls) ==
    IF ~current.some THEN [yielded |-> << >>, panic |-> FALSE, endless |-> FALSE]
    ELSE IF calls > len(sm) THEN [yielded |-> << >>, panic |-> FALSE, endless |-> TRUE]
    ELSE LET node == get(sm, current.val) IN
         IF node.panic \/ ~node.ret.some
         THEN [yielded |-> << >>, panic |-> TRUE, endless |-> FALSE]
         ELSE LET rest == iter_from(sm, node.ret.val.next, calls + 1) IN
              [rest EXCEPT !.yielded = << << node.ret.val.value, current.val >> >> \o @]

\* LinkedListSlotMap::iter, run to exhaustion
iter(sm, start_node) == iter_from(sm, Some(start_node), 0)

\* RevLinkedListSlotMapIterator::next, called until it returns None
RECURSIVE reverse_iter_from(_, _, _)
reverse_iter_from(sm, current, calls) ==
    IF ~current.some THEN [yielded |-> << >>, panic |-> FALSE, endless |-> FALSE]
    ELSE IF calls > len(sm) THEN [yielded |-> << >>, panic |-> FALSE, endless |-> TRUE]
    ELSE LET node == get(sm, current.val) IN
         IF node.panic \/ ~node.ret.some
         THEN [yielded |-> << >>, panic |-> TRUE, endless |-> FALSE]
         ELSE LET rest == reverse_iter_from(sm, node.ret.val.previous, calls + 1) IN
              [rest EXCEPT !.yielded = << << node.ret.val.value, current.val >> >> \o @]

\* LinkedListSlotMap::reverse_iter, run to exhaustion
reverse_iter(sm, start_node) == reverse_iter_from(sm, Some(start_node), 0)

\* RevRemoveLinkedListSlotMapIterator::next, for current_node = Some(handle):
\* returns the value and leaves the iterator at the node's previous.
reverse_remove_next(sm, node_handle) ==
    LET taken == remove(sm, node_handle) IN
    IF taken.panic \/ ~taken.ret.some THEN Panic(taken.sm)
    ELSE Ok(taken.sm, taken.ret.val)

-----------------------------------------------------------------------------
\* The arena of the current state, and the handles the program has handed out.

SM ==
    [items |-> items,
     item_to_indirection_index |-> item_to_indirection_index,
     indirection_indices |-> indirection_indices,
     free_indirection_indices |-> free_indirection_indices]

SetSM(sm) ==
    /\ items' = sm.items
    /\ item_to_indirection_index' = sm.item_to_indirection_index
    /\ indirection_indices' = sm.indirection_indices
    /\ free_indirection_indices' = sm.free_indirection_indices

Issued == DOMAIN live \cup removed

\* live without handle h
Forget(h) == [k \in DOMAIN live \ {h} |-> live[k]]

\* The value of the next insertion.  The code is generic in T and never
\* looks into a value, so the model inserts 1, 2, 3, ... in this order: all
\* values differ, and a value returned for the wrong element shows.
NextValue == Cardinality(Issued) + 1

Init ==
    /\ items = new.items
    /\ item_to_indirection_index = new.item_to_indirection_index
    /\ indirection_indices = new.indirection_indices
    /\ free_indirection_indices = new.free_indirection_indices
    /\ current_node = None
    /\ draining = FALSE
    /\ panicked = FALSE
    /\ live = << >>
    /\ removed = {}
    /\ abandoned = FALSE
    /\ last = [op |-> "new"]

\* A call can be made: no panic has ended the run and no drain iterator
\* holds the exclusive borrow.
Callable == ~panicked /\ ~draining

\* The model stops removing after MaxRemoved successful removals; a call
\* with a handle already removed changes nothing and is always allowed.
MayRemove(handle) == Cardinality(removed) < MaxRemoved \/ handle \in removed

-----------------------------------------------------------------------------
\* Calls on the arena, with T a plain value.

\* let h = slot_map.push(value)
Push(value) ==
    /\ Callable
    /\ len(SM) < MaxItems
    /\ LET r == push(SM, value) IN
        /\ SetSM(r.sm)
        /\ live' = live @@ (r.ret :> value)
        /\ last' = [op |-> "push", value |-> value, ret |-> r.ret,
                    peeked |-> IF last.op = "next_handle" THEN Some(last.ret) ELSE None]
    /\ UNCHANGED <<current_node, draining, panicked, removed, abandoned>>

\* slot_map.remove(handle), for a handle the arena handed out
Remove(handle) ==
    /\ Callable
    /\ handle \in Issued
    /\ MayRemove(handle)
    /\ LET r == remove(SM, handle) IN
        /\ SetSM(r.sm)
        /\ panicked' = r.panic
        /\ live' = IF r.ret.some THEN Forget(handle) ELSE live
        /\ removed' = IF r.ret.some THEN removed \cup {handle} ELSE removed
        /\ last' = [op |-> "remove", handle |-> handle, ret |-> r.ret]
    /\ UNCHANGED <<current_node, draining, abandoned>>

\* slot_map.next_handle()
NextHandle ==
    /\ Callable
    /\ LET r == next_handle(SM) IN
        /\ SetSM(r.sm)
        /\ last' = [op |-> "next_handle", ret |-> r.ret]
    /\ UNCHANGED <<current_node, draining, panicked, live, removed, abandoned>>

Next ==
    \/ Push(NextValue)
    \/ \E handle \in Issued : Remove(handle)
    \/ NextHandle

Spec == Init /\ [][Next]_vars

-----------------------------------------------------------------------------
\* Calls on the arena, remove_unchecked_generation among them.

\* The sum of the generations of entries.
RECURSIVE GenerationSum(_)
GenerationSum(entries) ==
    IF entries = << >> THEN 0
    ELSE Head(entries).generation + GenerationSum(Tail(entries))

\* Every call of remove_unchecked_generation adds 1 to a generation, also
\* where it removes nothing the model counts; the model stops calling it
\* when the generations add up to what MaxRemoved removals and reuses give.
MayRemoveUnchecked == GenerationSum(indirection_indices) < 2 * MaxRemoved

\* The live handles of the slot of handle: the one handle, if there is one,
\* that the caller of remove_unchecked_generation means to remove.
Holders(handle) ==
    { k \in DOMAIN live : k.indirection_index = handle.indirection_index }

\* slot_map.remove_unchecked_generation(handle), for a handle the arena
\* handed out: its slot is allocated, its generation is any
RemoveUncheckedGeneration(handle) ==
    /\ Callable
    /\ handle \in Issued
    /\ MayRemoveUnchecked
    /\ LET r == remove_unchecked_generation(SM, handle)
           gone == IF r.ret.some THEN Holders(handle) ELSE {}
       IN
        /\ SetSM(r.sm)
        /\ panicked' = r.panic
        /\ live' = [k \in DOMAIN live \ gone |-> live[k]]
        /\ removed' = removed \cup gone
        /\ last' = [op |-> "remove_unchecked_generation", handle |-> handle,
                    ret |-> r.ret]
    /\ UNCHANGED <<current_node, draining, abandoned>>

NextUnchecked ==
    \/ Push(NextValue)
    \/ \E handle \in Issued : Remove(handle)
    \/ \E handle \in Issued : RemoveUncheckedGeneration(handle)

SpecUnchecked == Init /\ [][NextUnchecked]_vars

-----------------------------------------------------------------------------
\* Calls on the linked list, with T a plain value.

\* The model stops removing nodes after MaxListRemoved successful removals,
\* and starts a drain only where all the removals it can make stay within
\* that number.
MayListRemove(node) == Cardinality(removed) < MaxListRemoved \/ node \in removed

MayDrain(start_node) ==
    Cardinality(removed) + Len(reverse_iter(SM, start_node).yielded)
        <= MaxListRemoved

\* let h = list.insert(previous, value), previous either None or a handle
\* the list handed out
Insert(previous, value) ==
    /\ Callable
    /\ len(SM) < MaxItems
    /\ previous.some => previous.val \in Issued
    /\ LET r == LinkedList_insert(SM, previous, value) IN
        /\ SetSM(r.sm)
        /\ panicked' = r.panic
        /\ live' = IF r.panic THEN live ELSE live @@ (r.ret :> value)
        /\ last' = [op |-> "insert", previous |-> previous, value |-> value,
                    ret |-> IF r.panic THEN None ELSE Some(r.ret)]
    /\ UNCHANGED <<current_node, draining, removed, abandoned>>

\* list.remove(node), for a handle the list handed out
ListRemove(node) ==
    /\ Callable
    /\ node \in Issued
    /\ MayListRemove(node)
    /\ LET r == LinkedList_remove(SM, node)
           gone == remove(SM, node).ret.some
       IN
        /\ SetSM(r.sm)
        /\ panicked' = r.panic
        /\ live' = IF gone THEN Forget(node) ELSE live
        /\ removed' = IF gone THEN removed \cup {node} ELSE removed
        /\ last' = [op |-> "remove", handle |-> node,
                    ret |-> IF r.panic THEN None ELSE Some(r.ret)]
    /\ UNCHANGED <<current_node, draining, abandoned>>

\* let it = list.reverse_remove_iter(start_node): the iterator borrows the
\* list exclusively until it is dropped.  The calls of a drain carry along
\* the node it started from, the arena it started in and the values it has
\* yielded so far.
ReverseRemoveIter(start_node) ==
    /\ Callable
    /\ start_node \in Issued
    /\ MayDrain(start_node)
    /\ draining' = TRUE
    /\ current_node' = Some(start_node)
    /\ last' = [op |-> "reverse_remove_iter", start |-> start_node,
                before |-> SM, yielded |-> << >>]
    /\ UNCHANGED <<items, item_to_indirection_index, indirection_indices,
                   free_indirection_indices, panicked, live, removed, abandoned>>

\* it.next() with a node to visit: the node is removed and its value yielded.
DrainNext ==
    /\ ~panicked
    /\ draining
    /\ current_node.some
    /\ LET r == reverse_remove_next(SM, current_node.val)
           gone == remove(SM, current_node.val).ret.some
       IN
        /\ SetSM(r.sm)
        /\ panicked' = r.panic
        /\ current_node' = IF r.panic THEN current_node ELSE r.ret.previous
        /\ live' = IF gone THEN Forget(current_node.val) ELSE live
        /\ removed' = IF gone THEN removed \cup {current_node.val} ELSE removed
        /\ last' = [op |-> "drain_next", handle |-> current_node.val,
                    ret |-> IF r.panic THEN None ELSE Some(r.ret.value),
                    start |-> last.start, before |-> last.before,
                    yielded |-> IF r.panic THEN last.yielded
                                ELSE Append(last.yielded, r.ret.value)]
    /\ UNCHANGED <<draining, abandoned>>

\* it.next() returns None: the drain is exhausted and the iterator dropped.
DrainEnd ==
    /\ ~panicked
    /\ draining
    /\ ~current_node.some
    /\ draining' = FALSE
    /\ last' = [op |-> "drain_end", start |-> last.start,
                yielded |-> last.yielded]
    /\ UNCHANGED <<items, item_to_indirection_index, indirection_indices,
                   free_indirection_indices, current_node, panicked, live,
                   removed, abandoned>>

\* The iterator is dropped while it still has a node to visit.
DrainDrop ==
    /\ ~panicked
    /\ draining
    /\ current_node.some
    /\ draining' = FALSE
    /\ abandoned' = TRUE
    /\ current_node' = None
    /\ last' = [op |-> "drain_drop"]
    /\ UNCHANGED <<items, item_to_indirection_index, indirection_indices,
                   free_indirection_indices, panicked, live, removed>>

NextList ==
    \/ Insert(None, NextValue)
    \/ \E previous \in DOMAIN live : Insert(Some(previous), NextValue)
    \/ \E node \in DOMAIN live : ListRemove(node)
    \/ \E start_node \in DOMAIN live : ReverseRemoveIter(start_node)
    \/ DrainNext
    \/ DrainEnd
    \/ DrainDrop

SpecList == Init /\ [][NextList]_vars

-----------------------------------------------------------------------------
\* Chains: a list that only insert and remove have worked on.  The handle
\* passed is any handle the list has handed out, live or stale.

NextChain ==
    \/ Insert(None, NextValue)
    \/ \E previous \in Issued : Insert(Some(previous), NextValue)
    \/ \E node \in Issued : ListRemove(node)

SpecChain == Init /\ [][NextChain]_vars

-----------------------------------------------------------------------------
\* Properties of the arena, checked under Spec.

\* The arena of the next state.
SMNext ==
    [items |-> items',
     item_to_indirection_index |-> item_to_indirection_index',
     indirection_indices |-> indirection_indices',
     free_indirection_indices |-> free_indirection_indices']

\* For every allocated slot, the handle with its current generation and a
\* stale one.
AllocatedHandles ==
    UNION { { SlotMapHandle(i, indirection_indices[i + 1].generation),
              SlotMapHandle(i, indirection_indices[i + 1].generation + 1) } :
            i \in 0..(Len(indirection_indices) - 1) }

\* The number of successful removals from the slot of handle h so far.
Removals(h) ==
    Cardinality({ r \in removed : r.indirection_index = h.indirection_index })

\* C1: every handle returned by push and not since removed resolves through
\* get to the value it was pushed with, whatever was removed and however
\* dense storage was compacted in between.
C1_HandleStability ==
    \A h \in DOMAIN live :
        /\ ~get(SM, h).panic
        /\ get(SM, h).ret = Some(live[h])

\* A removal has just compacted storage, and a live handle sits in a reused
\* slot at a dense position other than its slot index.
C1_Witness ==
    /\ last.op = "remove"
    /\ last.ret.some
    /\ Cardinality(DOMAIN live) >= 2
    /\ \E h \in DOMAIN live :
        /\ h.generation > 0
        /\ indirection_indices[h.indirection_index + 1].item_index
              # h.indirection_index

\* C2: a handle whose removal succeeded is absent for get and for remove in
\* every later state, however often its slot is reused.
C2_RemovedStaysInvalid ==
    \A h \in removed :
        /\ ~get(SM, h).panic
        /\ get(SM, h).ret = None
        /\ remove(SM, h) = Ok(SM, None)

\* A removed handle whose slot has since been reused twice and is occupied.
C2_Witness ==
    \E h \in removed :
        /\ indirection_indices[h.indirection_index + 1].generation
              >= h.generation + 4
        /\ \E k \in DOMAIN live : k.indirection_index = h.indirection_index

\* C3: next_handle leaves the arena as it was, and a push made right after
\* it returns the handle it gave: same indirection index, same generation.
C3_PeekThenInsert ==
    [][ /\ last'.op = "next_handle" => SMNext = SM
        /\ (last.op = "next_handle" /\ last'.op = "push") =>
              /\ last'.ret.indirection_index = last.ret.indirection_index
              /\ last'.ret.generation = last.ret.generation ]_vars

\* A push right after a peek has reused a vacated slot.
C3_Witness ==
    /\ last.op = "push"
    /\ last.peeked.some
    /\ last.ret.generation > 0
    /\ Len(indirection_indices) > 1

\* C4 as stated: the handle returned by the push that reuses a slot removed
\* k times carries generation k.
C4_GenerationIsRemovals ==
    last.op = "push" => last.ret.generation = Removals(last.ret)

\* C4 as amended: a removal adds 1 to the generation and so does the reuse
\* of the slot, so the handle returned by the push that reuses a slot
\* removed k times carries generation 2k.
C4_GenerationIsTwiceRemovals ==
    last.op = "push" => last.ret.generation = 2 * Removals(last.ret)

\* A push has reused a slot that was removed twice.
C4_Witness ==
    /\ last.op = "push"
    /\ Removals(last.ret) = 2

\* C5 as stated: get_mut_twice gives a reference only for a handle whose
\* generation is its slot's current one, and then to the value that handle
\* was pushed with.
C5_PairOnlyForLiveHandles ==
    \A h0 \in Issued, h1 \in Issued :
        LET r == get_mut_twice(SM, h0, h1)
            Granted(ref, h) ==
                ref.some =>
                    /\ indirection_indices[h.indirection_index + 1].generation
                          = h.generation
                    /\ h \in DOMAIN live
                    /\ items[ref.val + 1] = live[h]
        IN  ~r.panic => Granted(r.ret[1], h0) /\ Granted(r.ret[2], h1)

\* C6: get_mut_twice(h, h) is (None, None) for every handle of an allocated
\* slot; so is every call whose handles resolve to one dense position, and
\* the two references of a result never name the same position.
C6_NoAliasing ==
    \A h0 \in AllocatedHandles, h1 \in AllocatedHandles :
        LET r == get_mut_twice(SM, h0, h1)
            position(h) == indirection_indices[h.indirection_index + 1].item_index
        IN  /\ position(h0) = position(h1) =>
                ~r.panic /\ r.ret = << None, None >>
            /\ h0.indirection_index = h1.indirection_index =>
                ~r.panic /\ r.ret = << None, None >>
            /\ (~r.panic /\ r.ret[1].some /\ r.ret[2].some) =>
                r.ret[1].val # r.ret[2].val

\* A live slot and a vacated slot whose entries name the same dense position.
C6_Witness ==
    /\ Len(items) >= 2
    /\ \E h0 \in DOMAIN live, h1 \in removed :
        /\ h0.indirection_index # h1.indirection_index
        /\ indirection_indices[h0.indirection_index + 1].item_index
              = indirection_indices[h1.indirection_index + 1].item_index
        /\ get_mut_twice(SM, h0, h1).ret = << None, None >>

\* C7: a successful remove is a swap-remove.  It returns the value at the
\* handle's dense position, the last dense element takes that position,
\* every other position keeps its value, the length drops by one, and every
\* other live handle still resolves to its own value.
C7_SwapRemove ==
    [][ Len(items') < Len(items) =>
          LET h == last'.handle
              pos == indirection_indices[h.indirection_index + 1].item_index
          IN  /\ last'.op = "remove"
              /\ last'.ret = Some(items[pos + 1])
              /\ Len(items') = Len(items) - 1
              /\ \A i \in 1..Len(items') :
                    items'[i] = IF i = pos + 1 THEN items[Len(items)] ELSE items[i]
              /\ \A k \in DOMAIN live \ {h} :
                    get(SMNext, k).ret = Some(live[k]) ]_vars

\* Values 1, 2, 3 were pushed in this order and the handle of 2 removed:
\* dense storage is [1, 3] and the handle of 3 resolves to 3.
C7_Witness ==
    /\ last.op = "remove"
    /\ last.handle = SlotMapHandle(1, 0)
    /\ last.ret = Some(2)
    /\ items = << 1, 3 >>
    /\ get(SM, SlotMapHandle(2, 0)).ret = Some(3)
    /\ get(SM, SlotMapHandle(0, 0)).ret = Some(1)

-----------------------------------------------------------------------------
\* Properties of the linked list, checked under SpecList.

\* The node of handle h, when h is live.
NodeOf(sm, h) == get(sm, h).ret.val

\* Every next names a live node whose previous is the node's own handle, and
\* every previous names a live node whose next is the node's own handle.
LinksConsistent(sm) ==
    \A i \in 1..Len(sm.items) :
        LET node == sm.items[i]
            h == iter_with_handle(sm)[i][2]
        IN  /\ node.next.some =>
                /\ ~get(sm, node.next.val).panic
                /\ get(sm, node.next.val).ret.some
                /\ NodeOf(sm, node.next.val).previous = Some(h)
            /\ node.previous.some =>
                /\ ~get(sm, node.previous.val).panic
                /\ get(sm, node.previous.val).ret.some
                /\ NodeOf(sm, node.previous.val).next = Some(h)

\* No call is in progress, none has panicked, and every drain so far was
\* run to exhaustion.
Completed == ~panicked /\ ~draining /\ ~abandoned

\* C8: after any completed insert, remove or drain run to exhaustion from
\* any live node, the links of the nodes still in the arena are mutually
\* consistent.
C8_LinksConsistent == Completed => LinksConsistent(SM)

\* The sequence seq of (value, handle) pairs with pair put right after the
\* pair of handle a, if there is one.
RECURSIVE InsertAfter(_, _, _)
InsertAfter(seq, a, pair) ==
    IF seq = << >> THEN << >>
    ELSE IF Head(seq)[2] = a THEN << Head(seq), pair >> \o Tail(seq)
    ELSE << Head(seq) >> \o InsertAfter(Tail(seq), a, pair)

\* The sequence seq without the pair of handle n.
RECURSIVE Without(_, _)
Without(seq, n) ==
    IF seq = << >> THEN << >>
    ELSE IF Head(seq)[2] = n THEN Tail(seq)
    ELSE << Head(seq) >> \o Without(Tail(seq), n)

\* What C9 says of a step that inserts v after p (None, or Some(a) for a
\* live node a) and returns h.
InsertSplices(p, v, h) ==
    /\ ~panicked'
    /\ h.some
    /\ h.val \notin DOMAIN live
    /\ ~p.some =>
        /\ NodeOf(SMNext, h.val) = Node(v, None, None)
        /\ iter(SMNext, h.val).yielded = << << v, h.val >> >>
        /\ \A m \in DOMAIN live : iter(SMNext, m) = iter(SM, m)
    /\ p.some =>
        LET a == p.val
            old_next == NodeOf(SM, a).next
        IN  /\ NodeOf(SMNext, h.val) = Node(v, old_next, Some(a))
            /\ NodeOf(SMNext, a).next = h
            /\ old_next.some => NodeOf(SMNext, old_next.val).previous = h
            /\ \A m \in DOMAIN live :
                  /\ ~iter(SMNext, m).panic
                  /\ ~iter(SMNext, m).endless
                  /\ iter(SMNext, m).yielded =
                        InsertAfter(iter(SM, m).yielded, a, << v, h.val >>)

\* C9: insert(Some(a), v) for a live node a puts the new node right after a:
\* forward iteration from any node yields what it yielded before with v
\* right after a's value; insert(None, v) makes a one-node list.
C9_SpliceInsert ==
    [][ ( /\ last'.op = "insert"
          /\ last'.previous.some => last'.previous.val \in DOMAIN live ) =>
          InsertSplices(last'.previous, last'.value, last'.ret) ]_vars

\* The same, for the steps taken while every drain so far was run to
\* exhaustion.
C9_SpliceInsertAfterFullDrains ==
    [][ ( /\ ~abandoned
          /\ last'.op = "insert"
          /\ last'.previous.some => last'.previous.val \in DOMAIN live ) =>
          InsertSplices(last'.previous, last'.value, last'.ret) ]_vars

\* insert(None, 1) gave h1, then insert(Some(h1), 2) and insert(Some(h1), 3):
\* forward iteration from h1 yields 1, 3, 2.
C9_Witness ==
    /\ last.op = "insert"
    /\ last.previous = Some(SlotMapHandle(0, 0))
    /\ ~panicked
    /\ iter(SM, SlotMapHandle(0, 0)).yielded =
          << << 1, SlotMapHandle(0, 0) >>,
             << 3, SlotMapHandle(2, 0) >>,
             << 2, SlotMapHandle(1, 0) >> >>

\* What C10 says of a step that removes the live node n.
RemoveSplices(n) ==
    LET node == NodeOf(SM, n) IN
    /\ ~panicked'
    /\ last'.ret = Some(<< node.value, node.previous, node.next >>)
    /\ get(SMNext, n).ret = None
    /\ Len(items') = Len(items) - 1
    /\ node.previous.some => NodeOf(SMNext, node.previous.val).next = node.next
    /\ node.next.some => NodeOf(SMNext, node.next.val).previous = node.previous
    /\ \A m \in DOMAIN live \ {n} :
          /\ ~iter(SMNext, m).panic
          /\ ~iter(SMNext, m).endless
          /\ iter(SMNext, m).yielded = Without(iter(SM, m).yielded, n)

\* C10: remove of a live node n returns n's value and its former previous
\* and next, takes n out of the arena and splices the gap, so that forward
\* iteration yields the old sequence without n's value.
C10_RemoveSplices ==
    [][ (Completed /\ last'.op = "remove" /\ last'.handle \in DOMAIN live) =>
          RemoveSplices(last'.handle) ]_vars

\* The same, for the steps taken where the links are consistent.
C10_RemoveSplicesConsistentLinks ==
    [][ ( /\ Completed
          /\ LinksConsistent(SM)
          /\ last'.op = "remove"
          /\ last'.handle \in DOMAIN live ) =>
          RemoveSplices(last'.handle) ]_vars

-----------------------------------------------------------------------------
\* Properties of chains, checked under SpecChain.

\* The sequence seq in reverse order.
RECURSIVE Reverse(_)
Reverse(seq) ==
    IF seq = << >> THEN << >>
    ELSE Append(Reverse(Tail(seq)), Head(seq))

\* The live nodes without a previous.
Heads(sm) == { h \in DOMAIN live : ~NodeOf(sm, h).previous.some }

\* C11: for a chain built by insert and remove, forward iteration from the
\* head and backward iteration from the tail it ends at both end without
\* panic, and the backward one yields the (value, handle) pairs of the
\* forward one in reverse order; no walk from any live node is endless, and
\* every live node is in the chain of some head.  Both iterators hold a
\* shared borrow of the list, so the arena a walk leaves is the arena it
\* started from and a second walk from the same start yields the same pairs.
C11_ForwardBackwardReversed ==
    /\ \A h \in Heads(SM) :
          LET forward == iter(SM, h)
              tail == forward.yielded[Len(forward.yielded)][2]
              backward == reverse_iter(SM, tail)
          IN  /\ ~forward.panic /\ ~forward.endless
              /\ ~NodeOf(SM, tail).next.some
              /\ ~backward.panic /\ ~backward.endless
              /\ backward.yielded = Reverse(forward.yielded)
    /\ \A m \in DOMAIN live :
          /\ ~iter(SM, m).endless /\ ~reverse_iter(SM, m).endless
          /\ \E h \in Heads(SM) :
                \E k \in 1..Len(iter(SM, h).yielded) : iter(SM, h).yielded[k][2] = m

\* After a removal, a chain of three nodes whose order in the chain is not
\* the order of their values: a node was spliced in between two others.
C11_Witness ==
    /\ ~panicked
    /\ removed # {}
    /\ \E h \in Heads(SM) :
          LET forward == iter(SM, h).yielded IN
          /\ Len(forward) = 3
          /\ forward[2][1] > forward[3][1]
          /\ reverse_iter(SM, forward[3][2]).yielded = Reverse(forward)

-----------------------------------------------------------------------------
\* Drains, checked under SpecList.

\* What C12 says of a step of a drain that started from the node start in
\* the arena before: a call of next does not panic, and when next returns
\* None the values yielded are those of start and its predecessors in
\* backward order, get is absent for each of these nodes, and the arena is
\* shorter by the number of values yielded.
DrainRemovesVisited ==
    /\ last'.op = "drain_next" => ~panicked'
    /\ last'.op = "drain_end" =>
          LET walk == reverse_iter(last.before, last.start) IN
          /\ ~walk.panic /\ ~walk.endless
          /\ last.yielded = [k \in 1..Len(walk.yielded) |-> walk.yielded[k][1]]
          /\ \A k \in 1..Len(walk.yielded) :
                /\ ~get(SMNext, walk.yielded[k][2]).panic
                /\ get(SMNext, walk.yielded[k][2]).ret = None
          /\ Len(items') = Len(last.before.items) - Len(last.yielded)

\* C12: a drain from a live node, run to exhaustion, yields the values of
\* the start node and all its predecessors in backward order, ends, and
\* removes every node it visited.
C12_DrainRemovesVisited == [][DrainRemovesVisited]_vars

\* The same, for the drains started where the links are consistent.
C12_DrainRemovesVisitedConsistentLinks ==
    [][ ( /\ last'.op \in {"drain_next", "drain_end"}
          /\ LinksConsistent(IF last.op = "reverse_remove_iter"
                             THEN SM ELSE last.before) ) =>
          DrainRemovesVisited ]_vars

\* A drain from the tail of a chain of two nodes has ended: it yielded both
\* values, last node first, and the arena is empty.
C12_Witness ==
    /\ last.op = "drain_end"
    /\ Len(last.yielded) = 2
    /\ last.yielded[1] > last.yielded[2]
    /\ get(SM, last.start).ret = None
    /\ Len(items) = 0

-----------------------------------------------------------------------------
\* Stale handles, checked under SpecChain.

\* The handles handed out whose slot is allocated and has moved on to
\* another generation.
Stale(sm) ==
    { h \in Issued :
        /\ h.indirection_index < Len(sm.indirection_indices)
        /\ sm.indirection_indices[h.indirection_index + 1].generation
              # h.generation }

\* What the operations that return an Option give for a stale handle: absent,
\* without panic and without a change of the arena.
StaleReadsAbsent(sm) ==
    \A h \in Stale(sm) :
        /\ get(sm, h) = Ok(sm, None)
        /\ get_mut(sm, h) = Ok(sm, None)
        /\ remove(sm, h) = Ok(sm, None)
        /\ LinkedList_get(sm, h) = Ok(sm, None)
        /\ get_previous_handle(sm, h) = Ok(sm, None)
        /\ get_next_handle(sm, h) = Ok(sm, None)

\* C13: a stale handle passed to arena get, get_mut or remove, or to list
\* get, get_previous_handle, get_next_handle, insert (as the node to insert
\* after) or remove, gives an absent result and never a panic.
C13_StaleIsAbsent ==
    [][ /\ StaleReadsAbsent(SM)
        /\ ( /\ last'.op = "insert"
             /\ last'.previous.some
             /\ last'.previous.val \in Stale(SM) ) => ~panicked'
        /\ (last'.op = "remove" /\ last'.handle \in Stale(SM)) => ~panicked' ]_vars

\* The part of it that is about the operations that return an Option.
C13_StaleReadsAbsent == StaleReadsAbsent(SM)

-----------------------------------------------------------------------------
\* Failed calls.

\* C14: a mutating call either completes or fails having changed nothing:
\* a call that panics, and a removal that returns None, leave the arena as
\* it was.
C14_NoPartialUpdates ==
    [][ /\ panicked' => SMNext = SM
        /\ ( /\ last'.op \in {"remove", "remove_unchecked_generation"}
             /\ ~panicked'
             /\ ~last'.ret.some ) => SMNext = SM ]_vars

-----------------------------------------------------------------------------
\* The free pool, checked under SpecUnchecked.

\* The indirection indices in the free pool.
Pooled == { free_indirection_indices[i] : i \in 1..Len(free_indirection_indices) }

\* The slots that hold a value: those a dense position belongs to.
Occupied == { item_to_indirection_index[i] : i \in 1..Len(item_to_indirection_index) }

\* The slots vacated by a removal and not reused since: the allocated slots
\* that no live handle names.
Vacated ==
    (0..(Len(indirection_indices) - 1))
        \ { h.indirection_index : h \in DOMAIN live }

\* C18: where no call has panicked, the free pool holds each of the slots
\* vacated by a removal and not yet reused exactly once, and no slot that
\* holds a value.
C18_FreePool ==
    ~panicked =>
        /\ \A i, j \in 1..Len(free_indirection_indices) :
              i # j => free_indirection_indices[i] # free_indirection_indices[j]
        /\ Pooled = Vacated
        /\ Pooled \cap Occupied = {}

-----------------------------------------------------------------------------
\* Iteration with handles, checked under Spec.

\* C15: iter_with_handle yields one (value, handle) pair for each live
\* element and no other; each handle yielded is valid, and get returns for
\* it the value it is paired with, which is the value it was pushed with.
C15_IterWithHandle ==
    LET pairs == iter_with_handle(SM) IN
    /\ Len(pairs) = Cardinality(DOMAIN live)
    /\ { pairs[i][2] : i \in 1..Len(pairs) } = DOMAIN live
    /\ \A i \in 1..Len(pairs) :
          /\ get(SM, pairs[i][2]) = Ok(SM, Some(pairs[i][1]))
          /\ pairs[i][1] = live[pairs[i][2]]

\* Removals and reuse have left two elements of which one sits at a dense
\* position other than its slot index and one is in a reused slot.
C15_Witness ==
    LET pairs == iter_with_handle(SM) IN
    /\ Len(pairs) >= 2
    /\ \E i \in 1..Len(pairs) : pairs[i][2].indirection_index # i - 1
    /\ \E i \in 1..Len(pairs) : pairs[i][2].generation > 0

-----------------------------------------------------------------------------
\* Comparison and hashing of handles, checked under Spec on the handles the
\* arena has handed out.

\* Equality and order of two handles are those of their indirection indices.
EqualityAndOrderIndexOnly(a, b) ==
    /\ SlotMapHandle_eq(a, b) <=> a.indirection_index = b.indirection_index
    /\ SlotMapHandle_cmp(a, b) = "Equal" <=> a.indirection_index = b.indirection_index
    /\ SlotMapHandle_cmp(a, b) = "Less" <=> a.indirection_index < b.indirection_index

\* C16: equality, order and hashing of handles use the indirection index
\* only: two handles of one slot compare equal whatever their generations,
\* and feed the same words to the hasher.
C16_IndexOnly ==
    \A a \in Issued, b \in Issued :
        /\ EqualityAndOrderIndexOnly(a, b)
        /\ SlotMapHandle_eq(a, b) => SlotMapHandle_hash(a) = SlotMapHandle_hash(b)

\* The part of it that is about equality and order.
C16_EqualityAndOrderIndexOnly ==
    \A a \in Issued, b \in Issued : EqualityAndOrderIndexOnly(a, b)

-----------------------------------------------------------------------------
\* The back-reference table, checked under Spec.

\* C17: the back-reference table is as long as dense storage, and for every
\* dense position i it names an indirection entry whose item_index is i; no
\* removal panics, that of the sole remaining element and that of the last
\* dense element included.
C17_BackReference ==
    /\ Len(item_to_indirection_index) = Len(items)
    /\ \A i \in 1..Len(items) :
          /\ item_to_indirection_index[i] < Len(indirection_indices)
          /\ indirection_indices[item_to_indirection_index[i] + 1].item_index = i - 1
    /\ last.op = "remove" => ~panicked

\* The sole remaining element, which is also the last dense element, has
\* just been removed from an arena with several slots, one of them reused.
C17_Witness ==
    /\ last.op = "remove"
    /\ last.ret.some
    /\ Len(items) = 0
    /\ Len(indirection_indices) >= 2
    /\ last.handle.generation > 0

-----------------------------------------------------------------------------
\* Pairs of references to live elements, checked under Spec.

\* The dense position of the live handle h.
PositionOf(h) == indirection_indices[h.indirection_index + 1].item_index

\* C19: for two live handles of different slots get_mut_twice returns a
\* reference to the value of the first and a reference to the value of the
\* second, in this order, whichever sits lower in dense storage, and the
\* two references are to different dense positions.
C19_PairInArgumentOrder ==
    \A h0 \in DOMAIN live, h1 \in DOMAIN live :
        h0.indirection_index # h1.indirection_index =>
            LET r == get_mut_twice(SM, h0, h1) IN
            /\ ~r.panic
            /\ r.ret[1] = Some(PositionOf(h0))
            /\ r.ret[2] = Some(PositionOf(h1))
            /\ items[r.ret[1].val + 1] = live[h0]
            /\ items[r.ret[2].val + 1] = live[h1]
            /\ r.ret[1].val # r.ret[2].val

\* Two live handles of which the one of the lower slot sits at the higher
\* dense position: the call takes the Greater branch in this order of the
\* arguments and the Less branch in the other.
C19_Witness ==
    \E h0 \in DOMAIN live, h1 \in DOMAIN live :
        /\ h0.indirection_index < h1.indirection_index
        /\ PositionOf(h0) > PositionOf(h1)
        /\ get_mut_twice(SM, h0, h1).ret = << Some(PositionOf(h0)), Some(PositionOf(h1)) >>
        /\ get_mut_twice(SM, h1, h0).ret = << Some(PositionOf(h1)), Some(PositionOf(h0)) >>

-----------------------------------------------------------------------------
\* Several lists in one arena, checked under SpecList.

\* The handles of the list of the live node n: the nodes a walk from n
\* along next or along previous visits.
ListOf(sm, n) ==
    LET forward == iter(sm, n).yielded
        backward == reverse_iter(sm, n).yielded
    IN  { forward[k][2] : k \in 1..Len(forward) }
            \cup { backward[k][2] : k \in 1..Len(backward) }

\* Every live node outside the set mine of handles is the same node after
\* the step as before it, and forward iteration from it yields the same.
OthersUnchanged(mine) ==
    \A m \in DOMAIN live \ mine :
        /\ get(SMNext, m) = Ok(SMNext, Some(NodeOf(SM, m)))
        /\ iter(SMNext, m) = iter(SM, m)

\* C20: an insert after a live node, an insert of a standalone node and a
\* remove of a live node leave the nodes of every other list in the arena,
\* their links and their forward sequences as they were, whether or not the
\* removal moved one of them in dense storage.
C20_ListsIndependent ==
    [][ /\ (last'.op = "insert" /\ ~last'.previous.some) => OthersUnchanged({})
        /\ ( /\ last'.op = "insert"
             /\ last'.previous.some
             /\ last'.previous.val \in DOMAIN live ) =>
              OthersUnchanged(ListOf(SM, last'.previous.val))
        /\ (last'.op = "remove" /\ last'.handle \in DOMAIN live) =>
              OthersUnchanged(ListOf(SM, last'.handle)) ]_vars

\* A one-node list has just been removed, and a node of a two-node list
\* was moved into its dense position.
C20_Witness ==
    /\ last.op = "remove"
    /\ ~panicked
    /\ last.ret.some
    /\ ~last.ret.val[2].some /\ ~last.ret.val[3].some
    /\ \E m \in DOMAIN live :
          /\ Len(iter(SM, m).yielded) = 2
          /\ \E k \in ListOf(SM, m) :
                /\ PositionOf(k) # k.indirection_index
                /\ PositionOf(k)
                      = indirection_indices[last.handle.indirection_index + 1].item_index

====
